---- MODULE Spec2Model ----
(***************************************************************************)
(* ImageFileCollection of triage_fits_files.py: a directory of FITS files, *)
(* the table of header values kept for the tracked keywords, and the       *)
(* queries answered from that table or from a fresh scan of the files.     *)
(*                                                                         *)
(* Python strings are TLA+ strings; where the code looks inside a string   *)
(* (str.lower, fnmatch's suffix match) the string's characters are taken   *)
(* from the table Chars, as ASCII codes.  Python lists are sequences, so   *)
(* the code's index i is i+1 here.                                         *)
(***************************************************************************)
EXTENDS Integers, Sequences, FiniteSets

VARIABLES
    dirOK,          \* os.listdir(location) succeeds
    dirList,        \* os.listdir(location): the names in the directory
    readable,       \* the names pyfits.getheader can read (no IOError)
    header,         \* header[f]: keyword -> value, for the readable names
    writable,       \* the directories TemporaryFile(dir=...) can write to
    scalar_compare, \* numpy answers array([]) != '' with the scalar True (as it
                    \* did before 1.25) and not with an empty array
    pc,             \* "start" | "ready" | "returned" | "aborted": no collection
                    \* yet, idle, a call has ended and its outcome is in the
                    \* call record, the constructor raised; "listed": the
                    \* module function fits_files_in_directory was called
    _storage,       \* self._storage
    _keywords,      \* self._keywords
    _files,         \* self._files
    _summary_info,  \* self._summary_info
    op,             \* the last call made on the collection
    argK,           \* its keyword arguments (its extensions, for a listing)
    argV,           \* its value arguments
    argS,           \* its storage_dir argument (compressed, for a listing)
    res,            \* how it ended: "ok" or the exception raised
    ret,            \* what it returned
    used,           \* the table a query evaluated: "cache" | "scan" | "none"
    scanned,        \* the call read the files' headers (fits_summary ran)
    probed          \* the directories the call tried a temporary file in

env  == <<dirOK, dirList, readable, header, writable, scalar_compare>>
obj  == <<_storage, _keywords, _files, _summary_info>>
call == <<op, argK, argV, argS, res, ret, used, scanned, probed>>
vars == <<env, pc, obj, call>>

----------------------------------------------------------------------------
(* Bounds and input pools *)

MaxQueryLen == 2

MaxExtensions == 2

Location == "."

KeywordPool == {"imagetyp", "filter"}

NamePool == <<"a.fits", "b.fit", "n.txt">>

QueryValues == {"Light", "r", "*"}

PathPool == {"/store", "/ro"}

\* the names a directory that is only listed can hold
ListPool == <<"a.fits", "b.fit", "n.txt", "c.fits.gz", "d.FITS">>

\* the extensions a listing can be asked for
ExtensionPool == {"fit", "fits", "fits.gz"}

Range(s) == {s[i] : i \in 1..Len(s)}

SeqsUpTo(S, n) == UNION {[1..m -> S] : m \in 0..n}

NoDup(s) == \A i, j \in 1..Len(s) : i # j => s[i] # s[j]

\* keyword lists that name 'file', the column fits_summary keeps the names in
FileLists == {<<"file">>, <<"file", "imagetyp">>}

\* the tracked-keyword lists handed to the constructor and to the setter
TrackedLists ==
    {s \in SeqsUpTo(KeywordPool, Cardinality(KeywordPool)) : NoDup(s)} \cup FileLists

\* the keyword lists of the queries
QueryLists == SeqsUpTo(KeywordPool, MaxQueryLen) \cup FileLists

\* the headers a readable file can have
Headers ==
    { [k \in {"imagetyp", "filter"} |-> IF k = "imagetyp" THEN "LIGHT" ELSE "R"],
      [k \in {"imagetyp", "filter"} |-> IF k = "imagetyp" THEN "Light" ELSE "r"],
      [k \in {"imagetyp"} |-> "BIAS"] }

None      == [t |-> "none", v |-> ""]
Bool(b)   == [t |-> "bool", v |-> IF b THEN "True" ELSE "False"]
Str(s)    == [t |-> "str", v |-> s]

StorageArgs == {None, Bool(FALSE), Bool(TRUE)} \cup {Str(p) : p \in PathPool}

----------------------------------------------------------------------------
(* Strings *)

Chars(s) ==
    CASE s = ""       -> <<>>
      [] s = "*"      -> <<42>>
      [] s = "R"      -> <<82>>
      [] s = "r"      -> <<114>>
      [] s = "LIGHT"  -> <<76, 73, 71, 72, 84>>
      [] s = "Light"  -> <<76, 105, 103, 104, 116>>
      [] s = "BIAS"   -> <<66, 73, 65, 83>>
      [] s = "a.fits" -> <<97, 46, 102, 105, 116, 115>>
      [] s = "b.fit"  -> <<98, 46, 102, 105, 116>>
      [] s = "n.txt"  -> <<110, 46, 116, 120, 116>>
      [] s = "c.fits.gz" -> <<99, 46, 102, 105, 116, 115, 46, 103, 122>>
      [] s = "d.FITS" -> <<100, 46, 70, 73, 84, 83>>
      [] s = "fit"    -> <<102, 105, 116>>
      [] s = "fits"   -> <<102, 105, 116, 115>>
      [] s = "fit.gz" -> <<102, 105, 116, 46, 103, 122>>
      [] s = "fits.gz" -> <<102, 105, 116, 115, 46, 103, 122>>
      [] s = "fits.gz.gz" -> <<102, 105, 116, 115, 46, 103, 122, 46, 103, 122>>

\* extension + '.gz'
WithGz(extension) ==
    CASE extension = "fit"  -> "fit.gz"
      [] extension = "fits" -> "fits.gz"
      [] extension = "fits.gz" -> "fits.gz.gz"

\* str.lower(): 'A'..'Z' become 'a'..'z'
lower(cs) == [i \in 1..Len(cs) |-> IF cs[i] >= 65 /\ cs[i] <= 90 THEN cs[i] + 32 ELSE cs[i]]

\* fnmatch.fnmatch(name, '*' + extension)
EndsWith(cs, suffix) ==
    /\ Len(suffix) <= Len(cs)
    /\ SubSeq(cs, Len(cs) - Len(suffix) + 1, Len(cs)) = suffix

fnmatch_filter(names, extension) ==
    SelectSeq(names, LAMBDA n : EndsWith(Chars(n), Chars(extension)))

----------------------------------------------------------------------------
(* Module functions *)

RECURSIVE Concat(_)
Concat(ss) == IF ss = <<>> THEN <<>> ELSE Head(ss) \o Concat(Tail(ss))

full_extensions(extensions, compressed) ==
    IF compressed
    THEN extensions \o [i \in 1..Len(extensions) |-> WithGz(extensions[i])]
    ELSE extensions

\* fits_files_in_directory(dir, extensions, compressed), dir being location
fits_files_in_directory(extensions, compressed) ==
    LET fe == full_extensions(extensions, compressed)
    IN  Concat([i \in 1..Len(fe) |-> fnmatch_filter(dirList, fe[i])])

\* (mutant) the scan ends at the first file whose header cannot be read
ReadableRowsStopAtFailure(file_list) ==
    LET bad == {i \in 1..Len(file_list) : file_list[i] \notin readable}
    IN  IF bad = {} THEN file_list
        ELSE SubSeq(file_list, 1, (CHOOSE i \in bad : \A j \in bad : i <= j) - 1)

\* the files of file_list whose header is read; the others are skipped
ReadableRows(file_list) == SelectSeq(file_list, LAMBDA f : f \in readable)

\* header[keyword], '' on KeyError
HeaderValue(f, keyword) ==
    IF keyword \in DOMAIN header[f] THEN header[f][keyword] ELSE ""

\* what the loop over `keywords` appends to summary[c] for one file
Appended(f, keywords, c) ==
    LET hits == SelectSeq(keywords, LAMBDA k : k = c)
    IN  [i \in 1..Len(hits) |-> HeaderValue(f, c)]

\* what one file adds to summary[c]: its name when c is 'file', then what
\* the loop over `keywords` appends (a keyword 'file' names the same list)
RowOf(f, keywords, c) ==
    (IF c = "file" THEN <<f>> ELSE <<>>) \o Appended(f, keywords, c)

Column(rows, keywords, c) ==
    Concat([i \in 1..Len(rows) |-> RowOf(rows[i], keywords, c)])

fits_summary(file_list, keywords) ==
    LET fl   == IF file_list = <<>>
                THEN fits_files_in_directory(<<"fit", "fits">>, TRUE)
                ELSE file_list
        rows == ReadableRows(fl)
    IN  [c \in {"file"} \cup Range(keywords) |-> Column(rows, keywords, c)]

----------------------------------------------------------------------------
(* ImageFileCollection: pure parts of the methods *)

EmptyTable == [c \in {} |-> <<>>]

\* storage_dir setter: loc is stored as it is, without a probe
StoredAsIs(loc) == (loc.t = "bool" /\ loc.v = "False") \/ loc.t = "none"

\* storage_dir setter: the directory the temporary file is tried in
temp_storage(loc) == IF loc.t = "str" THEN loc.v ELSE Location

\* TemporaryFile(dir=d) raises OSError
ProbeFails(d) == d \notin writable

storage_dir_raises(loc) == ~StoredAsIs(loc) /\ ProbeFails(temp_storage(loc))

\* (mutant) the directory is stored before the probe
storage_dir_set_unprobed(loc, old) ==
    IF StoredAsIs(loc) THEN loc ELSE Str(temp_storage(loc))

\* self._storage after the setter ran with loc, `old` being its value before
storage_dir_set(loc, old) ==
    IF StoredAsIs(loc) THEN loc
    ELSE IF ProbeFails(temp_storage(loc)) THEN old
    ELSE Str(temp_storage(loc))

storage_dir_probes(loc) == IF StoredAsIs(loc) THEN {} ELSE {temp_storage(loc)}

has_key(keyword) == \E i \in 1..Len(_keywords) : keyword = _keywords[i]

\* values(keyword, unique): [res, ret]
values_of(keyword, unique) ==
    IF ~has_key(keyword) THEN [res |-> "ValueError", ret |-> <<>>]
    ELSE IF keyword \notin DOMAIN _summary_info THEN [res |-> "KeyError", ret |-> <<>>]
    ELSE [res |-> "ok",
          ret |-> IF unique THEN Range(_summary_info[keyword])
                  ELSE _summary_info[keyword]]

\* values == '*': one '*' per keyword
star_values(keywords) == [i \in 1..Len(keywords) |-> "*"]

\* where(column != '')[0]; a column without rows is array([]), an array of
\* floats, and comparing it with '' gives, by the numpy at hand, an empty
\* array or the scalar True, of which where() makes the index 0
where_not_blank(column) ==
    IF column = <<>> /\ scalar_compare THEN {1}
    ELSE {idx \in 1..Len(column) : column[idx] # ""}

\* the rows of a column that match value ('*': any non-empty value)
have_this_value(column, value) ==
    IF value = "*"
    THEN where_not_blank(column)
    ELSE {idx \in 1..Len(column) : lower(Chars(column[idx])) = lower(Chars(value))}

\* the cached table is used when some requested keyword is tracked
in_memory(keywords) == Range(keywords) \cap Range(_keywords) # {}

use_info(keywords) ==
    IF in_memory(keywords) THEN _summary_info ELSE fits_summary(_files, keywords)

Min(a, b) == IF a < b THEN a ELSE b

\* the rows left after the loop over zip(keywords, use_values)
have_all(table, keywords, use_values) ==
    {idx \in 1..Len(_files) :
        \A i \in 1..Min(Len(keywords), Len(use_values)) :
            idx \in have_this_value(table[keywords[i]], use_values[i])}

\* list(have_all): the orders in which the set can give its rows.  The order
\* of a set is the order of the slots of its hash table, and an int hashes to
\* itself: rows that all fit the smallest table, of 8 slots (the code's
\* indices 0..7), come in ascending order; past that the slot, and so the
\* order, depends on the size of the table and on how the interpreter
\* resolves collisions, and any order can come.
list_orders(idxs) ==
    IF \A i \in idxs : i <= 8
    THEN {SelectSeq([i \in 1..Len(_files) |-> i], LAMBDA i : i \in idxs)}
    ELSE {o \in [1..Cardinality(idxs) -> idxs] : Range(o) = idxs}

\* array(self._files)[order]
files_at(order) == [j \in 1..Len(order) |-> _files[order[j]]]

\* _find_keywords_by_values(keywords, use_values): [res, rets, used, scanned,
\* table], rets being the lists it can return
find_keywords_by_values(keywords, use_values) ==
    LET table == use_info(keywords)
        n     == Min(Len(keywords), Len(use_values))
        src   == IF in_memory(keywords) THEN "cache" ELSE "scan"
    IN  IF \E i \in 1..n : keywords[i] \notin DOMAIN table
        THEN [res |-> "KeyError", rets |-> {<<>>}, used |-> src,
              scanned |-> ~in_memory(keywords), table |-> table]
        ELSE [res |-> "ok",
              rets |-> {files_at(o) : o \in list_orders(have_all(table, keywords, use_values))},
              used |-> src, scanned |-> ~in_memory(keywords), table |-> table]

\* (mutant) no length check: zip() pairs up to the shorter list
key_values_result_unchecked(keywords, values) ==
    find_keywords_by_values(keywords, values)

\* files_with_key_values(keywords, values)
key_values_result(keywords, values) ==
    IF Len(keywords) # Len(values)
    THEN [res |-> "ValueError", rets |-> {<<>>}, used |-> "none", scanned |-> FALSE,
          table |-> EmptyTable]
    ELSE find_keywords_by_values(keywords, values)

\* files_with_keys(keywords)
keys_result(keywords) ==
    LET use_keys == IF keywords = <<>> THEN _keywords ELSE keywords
    IN  find_keywords_by_values(use_keys, star_values(use_keys))

----------------------------------------------------------------------------
(* State machine.  The program is single-threaded: one call at a time, and *)
(* the caller takes the outcome (Return) before it makes the next call.    *)

\* the names of NamePool in a directory holding the names of S
Listing(S) == SelectSeq(NamePool, LAMBDA n : n \in S)

FitsNames(S) == {n \in S : \E i \in 1..Len(full_extensions(<<"fit", "fits">>, TRUE)) :
                    EndsWith(Chars(n), Chars(full_extensions(<<"fit", "fits">>, TRUE)[i]))}

NoCall ==
    /\ op = "none"
    /\ argK = <<>>
    /\ argV = <<>>
    /\ argS = None
    /\ res = "none"
    /\ ret = <<>>
    /\ used = "none"
    /\ scanned = FALSE
    /\ probed = {}

InitEnv ==
    /\ dirOK \in BOOLEAN
    /\ \E S \in SUBSET Range(NamePool) :
          /\ dirList = Listing(S)
          /\ readable \in SUBSET FitsNames(S)
    /\ header \in [readable -> Headers]
    /\ ~dirOK => dirList = <<>>
    /\ scalar_compare \in BOOLEAN
    \* which numpy it is shows only where a table has no row for a listed file
    /\ (readable # {} \/ \A i \in 1..Len(dirList) : dirList[i] \notin FitsNames(Range(dirList)))
          => scalar_compare = FALSE

InitObj ==
    /\ pc = "start"
    /\ _storage = None
    /\ _keywords = <<>>
    /\ _files = <<>>
    /\ _summary_info = EmptyTable

\* a directory that can be listed can be written; /store can, /ro cannot
Init ==
    /\ InitEnv
    /\ writable = {"/store"} \cup (IF dirOK THEN {Location} ELSE {})
    /\ InitObj
    /\ NoCall

\* as Init, the location writable or not
InitStorage ==
    /\ InitEnv
    /\ writable \in {{"/store"}, {"/store", Location}}
    /\ ~dirOK => Location \notin writable
    /\ InitObj
    /\ NoCall

\* ImageFileCollection(location, storage_dir, keywords)
Construct(storage_dir, keywords) ==
    /\ pc = "start"
    /\ op' = "init"
    /\ argK' = keywords
    /\ argV' = <<>>
    /\ argS' = storage_dir
    /\ ret' = <<>>
    /\ used' = "none"
    /\ probed' = storage_dir_probes(storage_dir)
    /\ IF storage_dir_raises(storage_dir) \/ ~dirOK
       THEN /\ pc' = "aborted"
            /\ res' = "OSError"
            /\ scanned' = FALSE
            /\ UNCHANGED obj
       ELSE /\ pc' = "returned"
            /\ res' = "ok"
            /\ _storage' = storage_dir_set(storage_dir, _storage)
            /\ _keywords' = keywords
            /\ _files' = fits_files_in_directory(<<"fit", "fits">>, TRUE)
            /\ scanned' = (keywords # <<>>)
            /\ _summary_info' = IF keywords # <<>>
                                THEN fits_summary(_files', keywords)
                                ELSE EmptyTable
    /\ UNCHANGED env

\* collection.storage_dir = loc
SetStorageDir(loc) ==
    /\ pc = "ready"
    /\ pc' = "returned"
    /\ op' = "set_storage_dir"
    /\ argK' = <<>>
    /\ argV' = <<>>
    /\ argS' = loc
    /\ res' = IF storage_dir_raises(loc) THEN "OSError" ELSE "ok"
    /\ ret' = <<>>
    /\ used' = "none"
    /\ scanned' = FALSE
    /\ probed' = storage_dir_probes(loc)
    /\ _storage' = storage_dir_set(loc, _storage)
    /\ UNCHANGED <<env, _keywords, _files, _summary_info>>

\* self._summary_info after the keywords setter: not touched
keywords_set_summary(keywords) == _summary_info

\* collection.keywords = keywords
SetKeywords(keywords) ==
    /\ pc = "ready"
    /\ pc' = "returned"
    /\ op' = "set_keywords"
    /\ argK' = keywords
    /\ argV' = <<>>
    /\ argS' = None
    /\ res' = "ok"
    /\ ret' = <<>>
    /\ used' = "none"
    /\ scanned' = FALSE
    /\ probed' = {}
    /\ _keywords' = keywords
    /\ _summary_info' = keywords_set_summary(keywords)
    /\ UNCHANGED <<env, _storage, _files>>

\* collection.values(keyword, unique)
Values(keyword, unique) ==
    /\ pc = "ready"
    /\ pc' = "returned"
    /\ op' = IF unique THEN "values_unique" ELSE "values"
    /\ argK' = <<keyword>>
    /\ argV' = <<>>
    /\ argS' = None
    /\ res' = values_of(keyword, unique).res
    /\ ret' = values_of(keyword, unique).ret
    /\ used' = "none"
    /\ scanned' = FALSE
    /\ probed' = {}
    /\ UNCHANGED <<env, obj>>

\* (mutant) the table a query scanned is kept as the summary
query_summary_kept(keywords, r) ==
    IF r.used = "scan" THEN r.table ELSE _summary_info

\* what a query that evaluated r.table leaves in self._summary_info and
\* self._keywords: nothing is written back
query_summary(keywords, r) == _summary_info

query_keywords(keywords, r) == _keywords

\* a query that ended as r
Query(name, keywords, values, r) ==
    /\ pc = "ready"
    /\ pc' = "returned"
    /\ op' = name
    /\ argK' = keywords
    /\ argV' = values
    /\ argS' = None
    /\ res' = r.res
    /\ ret' \in r.rets
    /\ used' = r.used
    /\ scanned' = r.scanned
    /\ probed' = {}
    /\ _summary_info' = query_summary(keywords, r)
    /\ _keywords' = query_keywords(keywords, r)
    /\ UNCHANGED <<env, _storage, _files>>

\* collection.files_with_keys(keywords)
FilesWithKeys(keywords) ==
    Query("files_with_keys", keywords, <<>>, keys_result(keywords))

\* collection.files_with_key_values(keywords, values)
FilesWithKeyValues(keywords, values) ==
    Query("files_with_key_values", keywords, values, key_values_result(keywords, values))

\* the caller has the outcome of the call
Return ==
    /\ pc = "returned"
    /\ pc' = "ready"
    /\ op' = "none"
    /\ argK' = <<>>
    /\ argV' = <<>>
    /\ argS' = None
    /\ res' = "none"
    /\ ret' = <<>>
    /\ used' = "none"
    /\ scanned' = FALSE
    /\ probed' = {}
    /\ UNCHANGED <<env, obj>>

Next ==
    \/ \E k \in TrackedLists : Construct(None, k)
    \/ \E k \in TrackedLists : SetKeywords(k)
    \/ \E k \in KeywordPool \cup {"file"}, u \in BOOLEAN : Values(k, u)
    \/ \E k \in QueryLists : FilesWithKeys(k)
    \/ \E k \in QueryLists,
          v \in SeqsUpTo(QueryValues, MaxQueryLen) : FilesWithKeyValues(k, v)
    \/ Return

\* The queries neither read nor write self._storage, and the storage_dir
\* setter touches nothing else: Spec builds every collection with
\* storage_dir=None and leaves the setter to SpecStorage.
Spec == Init /\ [][Next]_vars

\* a directory of ListPool names, and no collection
InitList ==
    /\ dirOK \in BOOLEAN
    /\ \E S \in SUBSET Range(ListPool) :
          dirList = SelectSeq(ListPool, LAMBDA n : n \in S)
    /\ ~dirOK => dirList = <<>>
    /\ readable = {}
    /\ header = [f \in {} |-> EmptyTable]
    /\ writable = {"/store"} \cup (IF dirOK THEN {Location} ELSE {})
    /\ scalar_compare = FALSE
    /\ InitObj
    /\ NoCall

\* fits_files_in_directory(location, extensions, compressed)
ListFiles(extensions, compressed) ==
    /\ pc = "start"
    /\ pc' = "listed"
    /\ op' = "fits_files_in_directory"
    /\ argK' = extensions
    /\ argV' = <<>>
    /\ argS' = Bool(compressed)
    /\ res' = IF dirOK THEN "ok" ELSE "OSError"
    /\ ret' = IF dirOK THEN fits_files_in_directory(extensions, compressed) ELSE <<>>
    /\ used' = "none"
    /\ scanned' = FALSE
    /\ probed' = {}
    /\ UNCHANGED <<env, obj>>

NextList ==
    \E e \in SeqsUpTo(ExtensionPool, MaxExtensions), c \in BOOLEAN : ListFiles(e, c)

\* the module function alone, over any extension list
SpecList == InitList /\ [][NextList]_vars

NextStorage ==
    \/ \E s \in StorageArgs, k \in TrackedLists : Construct(s, k)
    \/ \E s \in StorageArgs : SetStorageDir(s)
    \/ Return

SpecStorage == InitStorage /\ [][NextStorage]_vars

----------------------------------------------------------------------------
(* What the claims are stated with *)

Live == pc \in {"ready", "returned"}

Returned(name) == pc = "returned" /\ op = name

IsQuery == op \in {"files_with_keys", "files_with_key_values"}

\* the keyword's value in the header of f; '' when f lacks it or cannot be read
FileValue(f, keyword) == IF f \in readable THEN HeaderValue(f, keyword) ELSE ""

\* value v asked of header value hv: case-insensitive equality, '*' any non-empty
Matches(hv, v) ==
    IF v = "*" THEN hv # "" ELSE lower(Chars(hv)) = lower(Chars(v))

\* the files of the collection whose header satisfies every (keyword, value) pair
Satisfying(ks, vs) ==
    {f \in Range(_files) : \A i \in 1..Len(ks) : Matches(FileValue(f, ks[i]), vs[i])}

\* the files of the collection whose header can be read, in file order
Indexed == SelectSeq(_files, LAMBDA f : f \in readable)

\* the file names among the entries of a column
NamesOf(column) == SelectSeq(column, LAMBDA x : x \in Range(_files))

\* the keywords a query asks for
Requested == IF op = "files_with_keys" /\ argK = <<>> THEN _keywords ELSE argK

LengthMismatch == op = "files_with_key_values" /\ Len(argK) # Len(argV)

----------------------------------------------------------------------------
(* C1 *)

\* C1: files_with_key_values(keywords, values) with lists of equal length
\* returns exactly the files whose header satisfies every (keyword, value)
\* pair, values compared case-insensitively and '*' meaning any non-empty
\* value.  The code does not: it fails or names the wrong files.
C1_ExactMatchSet ==
    (Returned("files_with_key_values") /\ Len(argK) = Len(argV))
        => /\ res = "ok"
           /\ Range(ret) = Satisfying(argK, argV)

----------------------------------------------------------------------------
(* C2 *)

\* C2: a collection built with tracked keywords has every column of the
\* summary as long as files, and summary['file'] equal to files, also when
\* some header cannot be read.  The code skips the unreadable files, and for
\* a tracked keyword 'file' it appends the header values to the names.
C2_AlignedWithFiles ==
    (Live /\ DOMAIN _summary_info # {})
        => /\ _summary_info["file"] = _files
           /\ \A c \in DOMAIN _summary_info : Len(_summary_info[c]) = Len(_files)

----------------------------------------------------------------------------
(* C3 *)

\* C3: a query uses the cached table only when every requested keyword is
\* tracked, scans the files when any is not, and so always finds a column for
\* every requested keyword and ends with a result.  The code uses the cached
\* table as soon as one requested keyword is tracked.
C3_CacheOnlyWhenAllTracked ==
    (pc = "returned" /\ IsQuery /\ ~LengthMismatch)
        => /\ used = "cache" => Range(Requested) \subseteq Range(_keywords)
           /\ ~(Range(Requested) \subseteq Range(_keywords)) => used = "scan"
           /\ res = "ok"

----------------------------------------------------------------------------
(* C4 *)

\* C4: a query that asks for a keyword that is not tracked leaves the summary
\* table, the tracked keywords and the file list as they were, and values()
\* of that keyword still raises the 'not tracked' ValueError after it.
C4_QueryWritesNothing ==
    [][ (pc = "ready" /\ IsQuery' /\ ~(Range(Requested') \subseteq Range(_keywords)))
          => /\ _summary_info' = _summary_info
             /\ _keywords' = _keywords
             /\ _files' = _files
             /\ \A k \in Range(Requested') \ Range(_keywords), u \in BOOLEAN :
                   (values_of(k, u).res)' = "ValueError" ]_vars

\* a query for an untracked keyword that scanned the files and found some
C4_Witness ==
    /\ pc = "returned"
    /\ IsQuery
    /\ Range(Requested) \cap Range(_keywords) = {}
    /\ used = "scan"
    /\ res = "ok"
    /\ ret # <<>>

----------------------------------------------------------------------------
(* C5 *)

\* C5: files_with_keys(keywords) returns exactly the files in which every
\* keyword (the tracked ones when keywords is empty) has a non-empty value,
\* which is the result of files_with_key_values with '*' for every keyword.
\* The code does not: it fails or names the wrong files.
C5_ExactNonEmptySet ==
    Returned("files_with_keys")
        => /\ res = "ok"
           /\ Range(ret) = {f \in Range(_files) :
                               \A i \in 1..Len(Requested) : FileValue(f, Requested[i]) # ""}
           /\ ret \in key_values_result(Requested, star_values(Requested)).rets

----------------------------------------------------------------------------
(* C6 *)

\* C6: files_with_key_values with lists of different lengths raises the
\* length-mismatch ValueError: it returns nothing, scans no file and leaves
\* the summary table, the tracked keywords and the file list as they were.
C6_MismatchRejected ==
    [][ (pc = "ready" /\ LengthMismatch')
          => /\ res' = "ValueError"
             /\ ret' = <<>>
             /\ ~scanned'
             /\ used' = "none"
             /\ _summary_info' = _summary_info
             /\ _keywords' = _keywords
             /\ _files' = _files ]_vars

\* two keywords against one value, where the truncated pairing matches a file
C6_Witness ==
    /\ Returned("files_with_key_values")
    /\ Len(argK) = 2
    /\ Len(argV) = 1
    /\ res = "ValueError"
    /\ Satisfying(SubSeq(argK, 1, 1), argV) # {}

----------------------------------------------------------------------------
(* C7 *)

\* C7: values(keyword) raises the 'not tracked' ValueError for a keyword that
\* is not tracked, and for a tracked keyword returns its value in every
\* indexed file, in file order, '' where the file lacks it; with unique, the
\* distinct values.  The code raises KeyError for a keyword tracked since the
\* table was built.
C7_ValuesOfTracked ==
    (pc = "returned" /\ op \in {"values", "values_unique"})
        => LET k    == argK[1]
               vals == [i \in 1..Len(Indexed) |-> FileValue(Indexed[i], k)]
           IN  /\ k \notin Range(_keywords) => res = "ValueError"
               /\ k \in Range(_keywords) =>
                     /\ res = "ok"
                     /\ op = "values" => ret = vals
                     /\ op = "values_unique" => ret = Range(vals)

----------------------------------------------------------------------------
(* C8 *)

\* C8: after construction and any assignments to keywords, the summary table
\* has a column for exactly the tracked keywords (and 'file'), so values(k)
\* succeeds for every tracked k.  The keywords setter leaves the table.
C8_TableFollowsKeywords ==
    Live => /\ DOMAIN _summary_info \ {"file"} = Range(_keywords)
            /\ \A k \in Range(_keywords) : values_of(k, FALSE).res = "ok"

----------------------------------------------------------------------------
(* C9 *)

\* C9: a file whose header cannot be read never aborts a build or a re-scan:
\* construction fails only when the directory cannot be listed (or the storage
\* probe fails), the table built has a row for exactly the readable files, a
\* query that scans ends with a result, and so does every scan fits_summary
\* can be asked for.  The rows of a table are read off the names in its
\* 'file' column, which holds other entries too when 'file' is a keyword.
C9_UnreadableSkipped ==
    /\ (op = "init" /\ dirOK /\ ~storage_dir_raises(argS)) => res = "ok"
    /\ (op = "init" /\ res = "ok" /\ argK # <<>>) =>
          /\ NamesOf(_summary_info["file"]) = Indexed
          /\ \A c \in DOMAIN _summary_info \ {"file"} :
                _summary_info[c] = [i \in 1..Len(Indexed) |-> FileValue(Indexed[i], c)]
    /\ (pc = "returned" /\ IsQuery /\ scanned) => res = "ok"
    /\ pc = "ready" => \A ks \in QueryLists :
                  NamesOf(fits_summary(_files, ks)["file"]) = Indexed

\* a build over a file list whose first file cannot be read and a later one can
C9_Witness ==
    /\ op = "init"
    /\ res = "ok"
    /\ argK # <<>>
    /\ Len(_files) >= 2
    /\ _files[1] \notin readable
    /\ _files[2] \in readable

----------------------------------------------------------------------------
(* C10 *)

\* C10: the storage_dir setter stores None and False without a probe; for True
\* it tries a temporary file in location and for a string in that path; it
\* stores the directory only when the probe succeeded, and when it failed it
\* raises and leaves the stored value as it was.
C10_StorageProbed ==
    [][ (pc = "ready" /\ op' = "set_storage_dir")
          => LET loc == argS'
                 d   == IF loc.t = "str" THEN loc.v ELSE Location
             IN  IF loc \in {None, Bool(FALSE)}
                 THEN probed' = {} /\ res' = "ok" /\ _storage' = loc
                 ELSE /\ probed' = {d}
                      /\ d \in writable => res' = "ok" /\ _storage' = Str(d)
                      /\ d \notin writable => res' = "OSError" /\ _storage' = _storage
      ]_vars

\* a set that failed its probe on a collection that had a storage directory
C10_Witness ==
    /\ Returned("set_storage_dir")
    /\ res = "OSError"
    /\ probed # {}
    /\ _storage = Str("/store")

----------------------------------------------------------------------------
(* C11 *)

\* the characters of the suffixes a listing for extensions es accepts
Suffixes(es, compressed) ==
    {Chars(es[i]) : i \in 1..Len(es)}
        \cup (IF compressed THEN {Chars(es[i]) \o <<46, 103, 122>> : i \in 1..Len(es)}
              ELSE {})

HasSuffix(n, es, compressed) ==
    \E suffix \in Suffixes(es, compressed) : EndsWith(Chars(n), suffix)

Listed == op = "fits_files_in_directory" /\ res = "ok"

\* C11: fits_files_in_directory returns only names of the directory that end
\* with one of the extensions (or, compressed set, with one of them and '.gz'),
\* returns every such name, and returns each name once.  The code returns a
\* name once for every extension it ends with.
C11_ListingExactOnce ==
    Listed => /\ \A n \in Range(ret) :
                    n \in Range(dirList) /\ HasSuffix(n, argK, argS = Bool(TRUE))
              /\ \A n \in Range(dirList) :
                    HasSuffix(n, argK, argS = Bool(TRUE)) => n \in Range(ret)
              /\ NoDup(ret)

----------------------------------------------------------------------------
(* C12 *)

\* the table the last query evaluated
Evaluated == IF used = "cache" THEN _summary_info ELSE fits_summary(_files, Requested)

\* the values the last query asked for
RequestedValues == IF op = "files_with_keys" THEN star_values(Requested) ELSE argV

\* the rows of table t that satisfy every requested pair
MatchingRows(t) ==
    {i \in 1..Len(t["file"]) :
        \A j \in 1..Len(Requested) :
            /\ i <= Len(t[Requested[j]])
            /\ Matches(t[Requested[j]][i], RequestedValues[j])}

\* C12: the names a query returns are the 'file' entries of the rows of the
\* evaluated table that matched every pair, never the name of another or of a
\* skipped file.  The code indexes self._files with the row numbers.
C12_NamesFromEvaluatedTable ==
    (pc = "returned" /\ IsQuery /\ res = "ok")
        => Range(ret) \subseteq {Evaluated["file"][i] : i \in MatchingRows(Evaluated)}

====
